---- MODULE Spec2Model ----
(***************************************************************************)
(* rsfs: a FUSE filesystem over a Redis server (src/redis_fs.go).          *)
(*                                                                         *)
(* The state is the Redis keyspace, the File nodes handed to the kernel    *)
(* (redisFile), the stream Directory nodes handed to the kernel (redisDir) *)
(* and, per kernel request thread, the position inside a File handler.     *)
(* Write and Flush run under redisFile.mu; ReadAll/reloadFile take no      *)
(* lock, so each of their statements is a step of its own.                 *)
(* Bytes are their ASCII codes; names and stream ids are strings.          *)
(***************************************************************************)
EXTENDS Integers, Sequences, FiniteSets, TLC

\* ------------------------------------------------------------------ bounds
MaxWb == 2          \* longest write buffer explored
MaxList == 2        \* longest Redis list explored
MaxInode == 50      \* largest small parent inode explored

Procs == {"p1", "p2"}            \* concurrent kernel request threads
Names == {"a", "1"}              \* key names / file names
Payloads == {<<102>>, <<98>>}    \* write request data: "f", "b"
ExtValues == {<<120>>}           \* values other clients SET: "x"
ExtElems == {<<120>>, <<121>>}   \* elements other clients RPUSH: "x", "y"
Gateway == {"ok", "fail"}        \* a store call answers, or the connection fails

\* -------------------------------------------------------------- the store
\* One Redis key.  t is what TYPE answers; only the field of that type is
\* meaningful, the others stay empty.  last is the stream's last-generated id.
NoKey == [t |-> "none", str |-> <<>>, list |-> <<>>, xs |-> <<>>, last |-> <<0, 0>>]

\* Stream ids "<ms>-<seq>" as Redis parses them; <<-1,-1>> is a malformed id.
Dec == [n \in 0..9 |-> CASE n = 0 -> "0" [] n = 1 -> "1" [] n = 2 -> "2"
                         [] n = 3 -> "3" [] n = 4 -> "4" [] n = 5 -> "5"
                         [] n = 6 -> "6" [] n = 7 -> "7" [] n = 8 -> "8"
                         [] n = 9 -> "9"]
BadId == <<-1, -1>>
IdText == [id \in (0..9) \X (0..9) |-> Dec[id[1]] \o "-" \o Dec[id[2]]]
IdTexts == {IdText[id] : id \in DOMAIN IdText}
ParseId(s) ==
    IF s \in IdTexts THEN CHOOSE id \in DOMAIN IdText : IdText[id] = s ELSE BadId
IdLess(a, b) == a[1] < b[1] \/ (a[1] = b[1] /\ a[2] < b[2])

RECURSIVE RemoveId(_, _)
RemoveId(xs, id) ==
    IF xs = <<>> THEN <<>>
    ELSE IF Head(xs).id = id THEN RemoveId(Tail(xs), id)
    ELSE <<Head(xs)>> \o RemoveId(Tail(xs), id)

\* Each command yields [err, val, st]: err is "nil" (success), "Nil"
\* (redis.Nil) or "err" (any other error); st is the keyspace afterwards.
\* gw = "fail" is a connection failure: the command never reaches the server.
Exists(st, k, gw) ==
    IF gw = "fail" THEN [err |-> "err", val |-> 0]
    ELSE [err |-> "nil", val |-> IF st[k].t = "none" THEN 0 ELSE 1]

Type(st, k, gw) ==
    IF gw = "fail" THEN [err |-> "err", val |-> ""]
    ELSE [err |-> "nil", val |-> st[k].t]

Keys(st, gw) ==
    IF gw = "fail" THEN [err |-> "err", val |-> {}]
    ELSE [err |-> "nil", val |-> {k \in Names : st[k].t # "none"}]

Get(st, k, gw) ==
    IF gw = "fail" THEN [err |-> "err", val |-> <<>>]
    ELSE IF st[k].t = "none" THEN [err |-> "Nil", val |-> <<>>]
    ELSE IF st[k].t # "string" THEN [err |-> "err", val |-> <<>>]
    ELSE [err |-> "nil", val |-> st[k].str]

\* A SET that leaves the key alone when the value is empty.
SetSkipsEmpty(st, k, v, gw) ==
    IF gw = "fail" THEN [err |-> "err", st |-> st]
    ELSE IF v = <<>> THEN [err |-> "nil", st |-> st]
    ELSE [err |-> "nil",
          st |-> [st EXCEPT ![k] = [NoKey EXCEPT !.t = "string", !.str = v]]]

Set(st, k, v, gw) ==
    IF gw = "fail" THEN [err |-> "err", st |-> st]
    ELSE [err |-> "nil",
          st |-> [st EXCEPT ![k] = [NoKey EXCEPT !.t = "string", !.str = v]]]

LRange(st, k, gw) ==
    IF gw = "fail" THEN [err |-> "err", val |-> <<>>]
    ELSE IF st[k].t = "none" THEN [err |-> "nil", val |-> <<>>]
    ELSE IF st[k].t # "list" THEN [err |-> "err", val |-> <<>>]
    ELSE [err |-> "nil", val |-> st[k].list]

XRange(st, k, gw) ==
    IF gw = "fail" THEN [err |-> "err", val |-> <<>>]
    ELSE IF st[k].t = "none" THEN [err |-> "nil", val |-> <<>>]
    ELSE IF st[k].t # "stream" THEN [err |-> "err", val |-> <<>>]
    ELSE [err |-> "nil", val |-> st[k].xs]

\* XADD with an explicit id: refused on a key of another type, on a malformed
\* id, on 0-0 and on an id not above the stream's last id; creates the stream.
XAdd(st, k, idstr, blob, gw) ==
    LET id == ParseId(idstr) IN
    IF gw = "fail" THEN [err |-> "err", st |-> st]
    ELSE IF st[k].t \notin {"none", "stream"} THEN [err |-> "err", st |-> st]
    ELSE IF id = BadId \/ ~IdLess(st[k].last, id) THEN [err |-> "err", st |-> st]
    ELSE [err |-> "nil",
          st |-> [st EXCEPT ![k] = [NoKey EXCEPT !.t = "stream",
                      !.xs = Append(st[k].xs, [id |-> idstr, blob |-> blob]),
                      !.last = id]]]

\* XDEL removes the entry; a stream that becomes empty stays a stream.
XDel(st, k, idstr, gw) ==
    IF gw = "fail" THEN [err |-> "err", st |-> st]
    ELSE IF st[k].t = "none" THEN [err |-> "nil", st |-> st]
    ELSE IF st[k].t # "stream" THEN [err |-> "err", st |-> st]
    ELSE [err |-> "nil", st |-> [st EXCEPT ![k].xs = RemoveId(st[k].xs, idstr)]]

\* -------------------------------------------------------------- the state
VARIABLES
    store,   \* the Redis keyspace: key name -> key
    files,   \* the redisFile nodes handed out, in order of creation
    dirs,    \* names of the stream redisDir nodes handed out (root always is)
    pc,      \* per thread: where it stands inside a File handler
    cur,     \* per thread: the handler's request and locals (f, data, t, b)
    ret,     \* what the step just taken returned to the kernel, if it returned
    hist     \* per File node: history of requests, for stating properties

vars == <<store, files, dirs, pc, cur, ret, hist>>

Root == ""                       \* redisDir{root: true}: its name is empty
Dummy == <<100, 117, 109, 109, 121>>     \* "dummy"
FileIds == 1..Len(files)
DirNodes == {Root} \cup dirs

NewFile(name, parent) ==
    [name |-> name, parent |-> parent, size |-> 0, rb |-> <<>>, wb |-> <<>>,
     ro |-> FALSE, mu |-> ""]

\* History of one File node: how it was obtained, whether the last open asked
\* for read-only access, the Write calls made and not yet flushed (in the
\* order they were called; done once the call has returned), and the data of
\* the calls whose bytes the last successful flush wrote to the scalar key,
\* valid while nobody else touched the key.
NewHist(origin) ==
    [origin |-> origin, roReq |-> FALSE, calls |-> <<>>, valid |-> FALSE,
     flushed |-> <<>>]

NoCall == [f |-> 0, data |-> <<>>, t |-> "", b |-> <<>>, solo |-> FALSE, held |-> {}]
NoRet == [op |-> "", f |-> 0, name |-> "", err |-> "", node |-> "none",
          entries |-> {}, n |-> 0, data |-> <<>>, solo |-> FALSE, expect |-> <<>>,
          fresh |-> FALSE]

\* ---------------------------------------- what reloadFile reads of a key
\* list: the elements joined by '\n', none after the last.
RECURSIVE JoinLines(_)
JoinLines(values) ==
    IF values = <<>> THEN <<>>
    ELSE IF Len(values) = 1 THEN values[1]
    ELSE values[1] \o <<10>> \o JoinLines(Tail(values))

\* stream: json.Marshal of []redis.XMessage,
\* [{"ID":"<id>","Values":{"blob":"<blob>"}},...]
IdBytes(idstr) == LET id == ParseId(idstr) IN <<48 + id[1], 45, 48 + id[2]>>
MarshalMessage(m) ==
    <<123, 34, 73, 68, 34, 58, 34>> \o IdBytes(m.id)
    \o <<34, 44, 34, 86, 97, 108, 117, 101, 115, 34, 58, 123, 34, 98, 108, 111, 98, 34, 58, 34>>
    \o m.blob \o <<34, 125, 125>>
RECURSIVE MarshalMessages(_)
MarshalMessages(xs) ==
    IF xs = <<>> THEN <<>>
    ELSE IF Len(xs) = 1 THEN MarshalMessage(xs[1])
    ELSE MarshalMessage(xs[1]) \o <<44>> \o MarshalMessages(Tail(xs))
Marshal(xs) == <<91>> \o MarshalMessages(xs) \o <<93>>

FetchNewlineAfterEach(st, name, t, gw) ==
    LET g == Get(st, name, gw)
        l == LRange(st, name, gw)
        x == XRange(st, name, gw)
        r == CASE t = "string" -> g
               [] t = "list" -> [err |-> l.err,
                                 val |-> IF l.val = <<>> THEN <<>>
                                         ELSE JoinLines(l.val) \o <<10>>]
               [] t = "stream" -> [err |-> x.err,
                                   val |-> IF x.err = "nil" THEN Marshal(x.val) ELSE <<>>]
               [] OTHER -> [err |-> "nil", val |-> <<>>] IN
    IF t \notin {"string", "list", "stream"} THEN [err |-> "ENOTSUP", b |-> <<>>]
    ELSE IF r.err = "Nil" THEN [err |-> "ENOENT", b |-> <<>>]
    ELSE IF r.err # "nil" THEN [err |-> "EIO", b |-> <<>>]
    ELSE [err |-> "ok", b |-> r.val]

\* The switch on t: the bytes read, or the error reloadFile returns.
Fetch(st, name, t, gw) ==
    LET g == Get(st, name, gw)
        l == LRange(st, name, gw)
        x == XRange(st, name, gw)
        r == CASE t = "string" -> g
               [] t = "list" -> [err |-> l.err, val |-> JoinLines(l.val)]
               [] t = "stream" -> [err |-> x.err,
                                   val |-> IF x.err = "nil" THEN Marshal(x.val) ELSE <<>>]
               [] OTHER -> [err |-> "nil", val |-> <<>>] IN
    IF t \notin {"string", "list", "stream"} THEN [err |-> "ENOTSUP", b |-> <<>>]
    ELSE IF r.err = "Nil" THEN [err |-> "ENOENT", b |-> <<>>]
    ELSE IF r.err # "nil" THEN [err |-> "EIO", b |-> <<>>]
    ELSE [err |-> "ok", b |-> r.val]

\* What a reload of the key can read from keyspace st, whatever type it
\* took the key for: to LRANGE and XRANGE an absent key is an empty one.
Serialized(st, name) ==
    {Fetch(st, name, t, "ok").b :
        t \in {u \in {"string", "list", "stream"} : Fetch(st, name, u, "ok").err = "ok"}}

\* A key of a File node changed under it: what its last flush committed is
\* no longer what the store holds, and reads in flight are no longer alone;
\* the reads in flight note which of the byte slices in play hold a value the
\* key has had since they were called.
Touched(st2) == {f \in FileIds : st2[files[f].name] # store[files[f].name]}
HistAfter(st2) ==
    [f \in FileIds |-> IF f \in Touched(st2) THEN [hist[f] EXCEPT !.valid = FALSE, !.flushed = <<>>]
                       ELSE hist[f]]
\* The byte slices in play on node f whose content is what keyspace st holds
\* for the key: "rb" is f.rb, q is the b that reader q has fetched.
HeldIn(st, f) ==
    {s \in {"rb"} \cup {q \in Procs : cur[q].f = f /\ pc[q] \in {"r_setrb", "r_setsize", "r_ret"}} :
        (IF s = "rb" THEN files[f].rb ELSE cur[s].b) \in Serialized(st, files[f].name)}

CurAfter(st2) ==
    [p \in Procs |->
        IF cur[p].f \in Touched(st2)
        THEN [cur[p] EXCEPT !.solo = FALSE,
                            !.held = IF pc[p] \in {"r_fetch", "r_setrb", "r_setsize", "r_ret"}
                                     THEN @ \cup HeldIn(st2, cur[p].f)
                                     ELSE @]
        ELSE cur[p]]

Init ==
    /\ store = [k \in Names |-> NoKey]
    /\ files = <<>>
    /\ dirs = {}
    /\ pc = [p \in Procs |-> "idle"]
    /\ cur = [p \in Procs |-> NoCall]
    /\ ret = NoRet
    /\ hist = <<>>

\* ---------------------------------------------------- Directory handlers
\* The model follows one File node, the first one handed out.  Nodes share
\* nothing but the store, so the File nodes handed out later act on this one
\* only as the other clients of the server do.
HandOut(file, origin) ==
    IF files = <<>>
    THEN /\ files' = Append(files, file)
         /\ hist' = Append(hist, NewHist(origin))
    ELSE UNCHANGED <<files, hist>>

\* A Lookup that gates on the type, as reloadFile does.
LookupResultGated(st, name, gw1, gw2) ==
    LET e == Exists(st, name, gw1)
        t == Type(st, name, gw2) IN
    IF e.err # "nil" \/ e.val # 1 THEN [err |-> "ENOENT", node |-> "none"]
    ELSE IF t.err # "nil" THEN [err |-> "EIO", node |-> "none"]
    ELSE IF t.val = "stream" THEN [err |-> "ok", node |-> "dir"]
    ELSE IF t.val \in {"string", "list"} THEN [err |-> "ok", node |-> "file"]
    ELSE [err |-> "ENOTSUP", node |-> "none"]

LookupResult(st, name, gw1, gw2) ==
    LET e == Exists(st, name, gw1)
        t == Type(st, name, gw2) IN
    IF e.err = "Nil" \/ e.val # 1 THEN [err |-> "ENOENT", node |-> "none"]
    ELSE IF e.err # "nil" THEN [err |-> "EIO", node |-> "none"]
    ELSE IF t.err = "Nil" \/ e.val # 1 THEN [err |-> "ENOENT", node |-> "none"]
    ELSE IF t.err # "nil" THEN [err |-> "EIO", node |-> "none"]
    ELSE IF t.val = "stream" THEN [err |-> "ok", node |-> "dir"]
    ELSE [err |-> "ok", node |-> "file"]

Lookup(d, name, gw1, gw2) ==
    LET r == LookupResult(store, name, gw1, gw2) IN
    /\ d \in DirNodes
    /\ ret' = [NoRet EXCEPT !.op = "Lookup", !.name = name, !.err = r.err,
                            !.node = r.node]
    /\ dirs' = IF r.node = "dir" THEN dirs \cup {name} ELSE dirs
    /\ IF r.node = "file" THEN HandOut(NewFile(name, ""), "lookup")
       ELSE UNCHANGED <<files, hist>>
    /\ UNCHANGED <<store, pc, cur>>

\* One Dirent per key KEYS answered; Type stays DT_Unknown unless the key is
\* a stream or a string.  failT: the keys whose TYPE call loses the connection.
\* A listing that takes a list for a regular file.
DirentTypeListAsFile(t) ==
    IF t = "stream" THEN "DT_Dir" ELSE IF t \in {"string", "list"} THEN "DT_File"
    ELSE "DT_Unknown"

DirentType(t) ==
    IF t = "stream" THEN "DT_Dir" ELSE IF t = "string" THEN "DT_File" ELSE "DT_Unknown"

ReadDirAllResult(d, gwk, failT) ==
    LET keys == Keys(store, gwk) IN
    IF d = Root
    THEN IF keys.err # "nil" THEN [err |-> "EIO", entries |-> {}]
         ELSE IF \E k \in keys.val : Type(store, k, IF k \in failT THEN "fail" ELSE "ok").err # "nil"
              THEN [err |-> "EIO", entries |-> {}]
         ELSE [err |-> "ok",
               entries |-> {[name |-> k, type |-> DirentType(Type(store, k, "ok").val)] :
                               k \in keys.val}]
    ELSE [err |-> "ok", entries |-> {}]

ReadDirAll(d, gwk, failT) ==
    LET r == ReadDirAllResult(d, gwk, failT) IN
    /\ d \in DirNodes
    /\ ret' = [NoRet EXCEPT !.op = "ReadDirAll", !.name = d, !.err = r.err,
                            !.entries = r.entries]
    /\ UNCHANGED <<store, files, dirs, pc, cur, hist>>

\* A Create that writes the empty key at once.
CreateEager(d, name) ==
    /\ d \in DirNodes
    /\ HandOut(NewFile(name, d), "create")
    /\ ret' = [NoRet EXCEPT !.op = "Create", !.name = name, !.err = "ok",
                            !.node = "file"]
    /\ store' = Set(store, name, <<>>, "ok").st
    /\ UNCHANGED <<dirs, pc, cur>>

Create(d, name) ==
    /\ d \in DirNodes
    /\ HandOut(NewFile(name, d), "create")
    /\ ret' = [NoRet EXCEPT !.op = "Create", !.name = name, !.err = "ok",
                            !.node = "file"]
    /\ UNCHANGED <<store, dirs, pc, cur>>

\* A Mkdir that issues the XDEL before the XADD.
MkdirResultDelFirst(name, gw1, gw2) ==
    LET x == XDel(store, name, "0-1", gw2)
        a == XAdd(x.st, name, "0-1", Dummy, gw1) IN
    IF x.err # "nil" THEN [err |-> "EIO", node |-> "none", st |-> x.st]
    ELSE IF a.err # "nil" THEN [err |-> "EIO", node |-> "none", st |-> a.st]
    ELSE [err |-> "ok", node |-> "dir", st |-> a.st]

\* XADD of the placeholder 0-1, then XDEL of it; no rollback in between.
MkdirResult(name, gw1, gw2) ==
    LET a == XAdd(store, name, "0-1", Dummy, gw1)
        x == XDel(a.st, name, "0-1", gw2) IN
    IF a.err # "nil" THEN [err |-> "EIO", node |-> "none", st |-> a.st]
    ELSE IF x.err # "nil" THEN [err |-> "EIO", node |-> "none", st |-> x.st]
    ELSE [err |-> "ok", node |-> "dir", st |-> x.st]

\* A Mkdir that undoes the XADD when it fails.
MkdirRollsBack(d, name, gw1, gw2) ==
    LET r == MkdirResult(name, gw1, gw2)
        st2 == IF r.err = "ok" THEN r.st ELSE store IN
    /\ d \in DirNodes
    /\ store' = st2
    /\ dirs' = IF r.node = "dir" THEN dirs \cup {name} ELSE dirs
    /\ ret' = [NoRet EXCEPT !.op = "Mkdir", !.name = name, !.err = r.err,
                            !.node = r.node]
    /\ hist' = HistAfter(st2)
    /\ cur' = CurAfter(st2)
    /\ UNCHANGED <<files, pc>>

Mkdir(d, name, gw1, gw2) ==
    LET r == MkdirResult(name, gw1, gw2) IN
    /\ d \in DirNodes
    /\ store' = r.st
    /\ dirs' = IF r.node = "dir" THEN dirs \cup {name} ELSE dirs
    /\ ret' = [NoRet EXCEPT !.op = "Mkdir", !.name = name, !.err = r.err,
                            !.node = r.node]
    /\ hist' = HistAfter(r.st)
    /\ cur' = CurAfter(r.st)
    /\ UNCHANGED <<files, pc>>

\* --------------------------------------------------------- File handlers
SetFile(f, file) == [files EXCEPT ![f] = file]
Readers(f) == {q \in Procs : cur[q].f = f /\ pc[q] \in {"r_fetch", "r_setrb", "r_setsize", "r_ret"}}
Writers(f) == {q \in Procs : cur[q].f = f /\ pc[q] \in {"w_lock", "w_append", "w_store"}}

\* Open: the flag is written only for a read-only, non-directory request.
OpenFlag(file, readOnly, dir) ==
    IF readOnly /\ ~dir THEN [file EXCEPT !.ro = FALSE] ELSE file

Open(f, readOnly, dir) ==
    /\ f \in FileIds
    /\ files' = SetFile(f, OpenFlag(files[f], readOnly, dir))
    /\ hist' = [hist EXCEPT ![f].roReq = (readOnly /\ ~dir)]
    /\ ret' = [NoRet EXCEPT !.op = "Open", !.f = f, !.err = "ok"]
    /\ UNCHANGED <<store, dirs, pc, cur>>

\* A mutex that never blocks.
CanLockAlways(file) == TRUE

\* f.mu.Lock() returns once nobody holds the mutex.
CanLock(file) == file.mu = ""

RECURSIVE Flatten(_)
Flatten(parts) == IF parts = <<>> THEN <<>> ELSE Head(parts) \o Flatten(Tail(parts))
Pending(f) == Flatten([i \in 1..Len(hist[f].calls) |->
                          IF hist[f].calls[i].done THEN <<>> ELSE hist[f].calls[i].data])

\* Write is called: the thread stands at f.mu.Lock().
WriteCall(p, f, data) ==
    /\ pc[p] = "idle"
    /\ f \in FileIds
    /\ Len(files[f].wb) + Len(Pending(f)) + Len(data) <= MaxWb
    /\ pc' = [pc EXCEPT ![p] = "w_lock"]
    /\ cur' = [cur EXCEPT ![p] = [NoCall EXCEPT !.f = f, !.data = data]]
    /\ hist' = [hist EXCEPT ![f].calls = Append(@, [p |-> p, data |-> data, done |-> FALSE])]
    /\ ret' = NoRet
    /\ UNCHANGED <<store, files, dirs>>

WriteLock(p) ==
    /\ pc[p] = "w_lock"
    /\ CanLock(files[cur[p].f])
    /\ files' = [files EXCEPT ![cur[p].f].mu = p]
    /\ pc' = [pc EXCEPT ![p] = "w_append"]
    /\ ret' = NoRet
    /\ UNCHANGED <<store, dirs, cur, hist>>

\* An append that puts the new data in front.
AppendDataInFront(wb, data) == data \o wb

\* append(f.wb, req.Data...) is evaluated ...
AppendData(wb, data) == wb \o data

WriteAppend(p) ==
    /\ pc[p] = "w_append"
    /\ cur' = [cur EXCEPT ![p].b = AppendData(files[cur[p].f].wb, cur[p].data)]
    /\ pc' = [pc EXCEPT ![p] = "w_store"]
    /\ ret' = NoRet
    /\ UNCHANGED <<store, files, dirs, hist>>

\* ... and assigned to f.wb; resp.Size, return nil and the deferred Unlock.
Write(p) ==
    LET f == cur[p].f IN
    /\ pc[p] = "w_store"
    /\ files' = SetFile(f, [files[f] EXCEPT !.wb = cur[p].b, !.mu = ""])
    /\ hist' = [hist EXCEPT ![f].calls =
                   [i \in 1..Len(@) |-> IF @[i].p = p THEN [@[i] EXCEPT !.done = TRUE]
                                        ELSE @[i]]]
    /\ ret' = [NoRet EXCEPT !.op = "Write", !.f = f, !.err = "ok", !.n = Len(cur[p].data)]
    /\ pc' = [pc EXCEPT ![p] = "idle"]
    /\ cur' = [cur EXCEPT ![p] = NoCall]
    /\ UNCHANGED <<store, dirs>>

\* A Flush that enters its body without waiting for the lock.
FlushLockUnguarded(p, f) ==
    /\ pc[p] = "idle"
    /\ f \in FileIds
    /\ files' = SetFile(f, [files[f] EXCEPT !.mu = p])
    /\ pc' = [pc EXCEPT ![p] = "f_body"]
    /\ cur' = [cur EXCEPT ![p] = [NoCall EXCEPT !.f = f]]
    /\ ret' = NoRet
    /\ UNCHANGED <<store, dirs, hist>>

\* Flush: f.mu.Lock(), then the body and the deferred Unlock.
FlushLock(p, f) ==
    /\ pc[p] = "idle"
    /\ f \in FileIds
    /\ CanLock(files[f])
    /\ files' = SetFile(f, [files[f] EXCEPT !.mu = p])
    /\ pc' = [pc EXCEPT ![p] = "f_body"]
    /\ cur' = [cur EXCEPT ![p] = [NoCall EXCEPT !.f = f]]
    /\ ret' = NoRet
    /\ UNCHANGED <<store, dirs, hist>>

\* A Flush that clears the buffer whether or not the store took it.
FlushResultAlwaysClears(file, st, gw) ==
    LET r == IF file.parent # ""
             THEN XAdd(st, file.parent, file.name \o "-0", file.wb, gw)
             ELSE Set(st, file.name, file.wb, gw) IN
    IF file.ro THEN [err |-> "ok", st |-> st, wb |-> file.wb, sent |-> FALSE]
    ELSE IF r.err # "nil" THEN [err |-> "EIO", st |-> r.st, wb |-> <<>>, sent |-> FALSE]
    ELSE [err |-> "ok", st |-> r.st, wb |-> <<>>, sent |-> TRUE]

\* What Flush does to the store and the write buffer, and what it returns.
FlushResult(file, st, gw) ==
    LET r == IF file.parent # ""
             THEN XAdd(st, file.parent, file.name \o "-0", file.wb, gw)
             ELSE Set(st, file.name, file.wb, gw) IN
    IF file.ro THEN [err |-> "ok", st |-> st, wb |-> file.wb, sent |-> FALSE]
    ELSE IF r.err # "nil" THEN [err |-> "EIO", st |-> r.st, wb |-> file.wb, sent |-> FALSE]
    ELSE [err |-> "ok", st |-> r.st, wb |-> <<>>, sent |-> TRUE]

Done(calls) == SelectSeq(calls, LAMBDA c : c.done)
NotDone(calls) == SelectSeq(calls, LAMBDA c : ~c.done)
Data(calls) == [i \in 1..Len(calls) |-> calls[i].data]

\* A Flush that writes the scalar key whatever the parent is.
FlushToScalarKey(p, gw) ==
    LET f == cur[p].f
        r == FlushResult([files[f] EXCEPT !.parent = ""], store, gw)
        h == HistAfter(r.st) IN
    /\ pc[p] = "f_body"
    /\ store' = r.st
    /\ files' = SetFile(f, [files[f] EXCEPT !.wb = r.wb, !.mu = ""])
    /\ hist' = IF r.sent
               THEN [h EXCEPT ![f] = [h[f] EXCEPT
                        !.calls = NotDone(hist[f].calls),
                        !.valid = (files[f].parent = ""),
                        !.flushed = IF files[f].parent = ""
                                    THEN Data(Done(hist[f].calls)) ELSE <<>>]]
               ELSE h
    /\ ret' = [NoRet EXCEPT !.op = "Flush", !.f = f, !.err = r.err]
    /\ pc' = [pc EXCEPT ![p] = "idle"]
    /\ cur' = [CurAfter(r.st) EXCEPT ![p] = NoCall]
    /\ UNCHANGED dirs

Flush(p, gw) ==
    LET f == cur[p].f
        r == FlushResult(files[f], store, gw)
        h == HistAfter(r.st) IN
    /\ pc[p] = "f_body"
    /\ store' = r.st
    /\ files' = SetFile(f, [files[f] EXCEPT !.wb = r.wb, !.mu = ""])
    /\ hist' = IF r.sent
               THEN [h EXCEPT ![f] = [h[f] EXCEPT
                        !.calls = NotDone(hist[f].calls),
                        !.valid = (files[f].parent = ""),
                        !.flushed = IF files[f].parent = ""
                                    THEN Data(Done(hist[f].calls)) ELSE <<>>]]
               ELSE h
    /\ ret' = [NoRet EXCEPT !.op = "Flush", !.f = f, !.err = r.err]
    /\ pc' = [pc EXCEPT ![p] = "idle"]
    /\ cur' = [CurAfter(r.st) EXCEPT ![p] = NoCall]
    /\ UNCHANGED dirs

\* ReadAll -> reloadFile, statement by statement (no lock is taken).
Return(p, op, err, data) ==
    /\ ret' = [NoRet EXCEPT !.op = op, !.f = cur[p].f, !.err = err, !.data = data,
                            !.solo = cur[p].solo,
                            !.expect = Flatten(hist[cur[p].f].flushed),
                            !.fresh = ("rb" \in cur[p].held)]
    /\ pc' = [pc EXCEPT ![p] = "idle"]
    /\ cur' = [q \in Procs |-> IF q = p THEN NoCall
                                ELSE [cur[q] EXCEPT !.held = @ \ {p}]]

\* t, err := f.client.Type(f.name).Result()
ReloadType(p, f, gw) ==
    LET t == Type(store, files[f].name, gw)
        c == [q \in Procs |-> IF q \in Readers(f) THEN [cur[q] EXCEPT !.solo = FALSE]
                              ELSE cur[q]] IN
    /\ pc[p] = "idle"
    /\ f \in FileIds
    /\ IF t.err = "Nil" \/ t.err # "nil"
       THEN /\ ret' = [NoRet EXCEPT !.op = "ReadAll", !.f = f,
                            !.err = IF t.err = "Nil" THEN "ENOENT" ELSE "EIO"]
            /\ UNCHANGED <<pc, cur>>
       ELSE /\ pc' = [pc EXCEPT ![p] = "r_fetch"]
            /\ cur' = [c EXCEPT ![p] = [NoCall EXCEPT !.f = f, !.t = t.val,
                            !.solo = (hist[f].valid /\ Readers(f) = {}),
                            !.held = HeldIn(store, f)]]
            /\ ret' = NoRet
    /\ UNCHANGED <<store, files, dirs, hist>>

ReloadFetch(p, gw) ==
    LET r == Fetch(store, files[cur[p].f].name, cur[p].t, gw) IN
    /\ pc[p] = "r_fetch"
    /\ IF r.err # "ok"
       THEN Return(p, "ReadAll", r.err, <<>>)
       ELSE /\ pc' = [pc EXCEPT ![p] = "r_setrb"]
            /\ cur' = [q \in Procs |->
                          IF q = p THEN [cur[p] EXCEPT !.b = r.b, !.held = @ \cup {p}]
                          ELSE IF q \in Readers(cur[p].f)
                               THEN [cur[q] EXCEPT !.held = @ \cup {p}]
                          ELSE cur[q]]
            /\ ret' = NoRet
    /\ UNCHANGED <<store, files, dirs, hist>>

\* f.rb = b
ReloadSetRb(p) ==
    /\ pc[p] = "r_setrb"
    /\ files' = [files EXCEPT ![cur[p].f].rb = cur[p].b]
    /\ pc' = [pc EXCEPT ![p] = "r_setsize"]
    /\ cur' = [q \in Procs |->
                  IF q \in Readers(cur[p].f)
                  THEN [cur[q] EXCEPT !.held = IF p \in @ THEN @ \cup {"rb"} ELSE @ \ {"rb"}]
                  ELSE cur[q]]
    /\ ret' = NoRet
    /\ UNCHANGED <<store, dirs, hist>>

\* f.size = uint64(len(b))
ReloadSetSize(p) ==
    /\ pc[p] = "r_setsize"
    /\ files' = [files EXCEPT ![cur[p].f].size = Len(cur[p].b)]
    /\ pc' = [pc EXCEPT ![p] = "r_ret"]
    /\ ret' = NoRet
    /\ UNCHANGED <<store, dirs, cur, hist>>

\* return f.rb, nil
ReadAll(p) ==
    /\ pc[p] = "r_ret"
    /\ Return(p, "ReadAll", "ok", files[cur[p].f].rb)
    /\ UNCHANGED <<store, files, dirs, hist>>

\* ------------------------------------------------------- node identity
\* uint64 values are 8 bytes, least significant first, so that the hash
\* wraps at 2^64 as Go's does.
RECURSIVE PutUint64N(_, _)
PutUint64N(v, n) == IF n = 0 THEN <<>> ELSE <<v % 256>> \o PutUint64N(v \div 256, n - 1)
\* binary.LittleEndian.PutUint64(b, v): the first 8 bytes of b
PutUint64(v) == PutUint64N(v, 8)

RECURSIVE XorBits(_, _, _)
XorBits(a, b, n) ==
    IF n = 0 THEN 0
    ELSE (((a % 2) + (b % 2)) % 2) + 2 * XorBits(a \div 2, b \div 2, n - 1)

\* hash/fnv: offset64 = 14695981039346656037, prime64 = 1099511628211
Offset64 == <<37, 35, 34, 132, 228, 156, 242, 203>>
Prime64 == <<179, 1, 0, 0, 0, 1, 0, 0>>

RECURSIVE MulCoef(_, _, _, _)
MulCoef(x, y, k, i) ==
    IF i > k THEN 0 ELSE (x[i] * y[k - i + 1]) + MulCoef(x, y, k, i + 1)
RECURSIVE MulLimbs(_, _, _, _)
MulLimbs(x, y, k, carry) ==
    IF k > 8 THEN <<>>
    ELSE LET t == MulCoef(x, y, k, 1) + carry IN
         <<t % 256>> \o MulLimbs(x, y, k + 1, t \div 256)
\* x * y mod 2^64
Mul64(x, y) == MulLimbs(x, y, 1, 0)

\* (*sum64a).Write: for each byte c, hash ^= c; hash *= prime64
RECURSIVE Fnv64aWrite(_, _)
Fnv64aWrite(h, data) ==
    IF data = <<>> THEN h
    ELSE Fnv64aWrite(Mul64([h EXCEPT ![1] = XorBits(h[1], Head(data), 8)], Prime64),
                     Tail(data))

\* []byte(name)
InodeNames == {"", "a", "1", "ab"}
NameBytes == [n \in InodeNames |->
                 CASE n = "" -> <<>> [] n = "a" -> <<97>> [] n = "1" -> <<49>>
                   [] n = "ab" -> <<97, 98>>]
InodeParents == (1..MaxInode) \cup {255, 256, 65537}

\* GenerateInode: b receives the parent inode, the hash receives the name.
GenerateInodeResult(parentInode, name) ==
    LET b == PutUint64(parentInode) \o <<0, 0>> IN
    Fnv64aWrite(Offset64, NameBytes[name])

GenerateInode(parentInode, name) ==
    /\ ret' = [NoRet EXCEPT !.op = "GenerateInode", !.name = name, !.n = parentInode,
                            !.data = GenerateInodeResult(parentInode, name)]
    /\ UNCHANGED <<store, files, dirs, pc, cur, hist>>

\* ------------------------------------- other clients of the same server
External(st2) ==
    /\ store' = st2
    /\ hist' = HistAfter(st2)
    /\ cur' = CurAfter(st2)
    /\ ret' = NoRet
    /\ UNCHANGED <<files, dirs, pc>>

ExtSet(k, v) == External(Set(store, k, v, "ok").st)

ExtDel(k) ==
    /\ store[k].t # "none"
    /\ External([store EXCEPT ![k] = NoKey])

ExtRPush(k, e) ==
    /\ store[k].t \in {"none", "list"}
    /\ Len(store[k].list) < MaxList
    /\ External([store EXCEPT ![k] = [NoKey EXCEPT !.t = "list",
                                          !.list = Append(store[k].list, e)]])

ExtSAdd(k) ==
    /\ store[k].t = "none"
    /\ External([store EXCEPT ![k] = [NoKey EXCEPT !.t = "set"]])

\* ------------------------------------------------------ the specification
\* The whole system: every handler, any thread, any key.
Next ==
    \/ \E d \in DirNodes, n \in Names, g1 \in Gateway, g2 \in Gateway : Lookup(d, n, g1, g2)
    \/ \E d \in DirNodes, g \in Gateway, ft \in SUBSET Names : ReadDirAll(d, g, ft)
    \/ \E d \in DirNodes, n \in Names : Create(d, n)
    \/ \E d \in DirNodes, n \in Names, g1 \in Gateway, g2 \in Gateway : Mkdir(d, n, g1, g2)
    \/ \E f \in FileIds, ro \in BOOLEAN, dir \in BOOLEAN : Open(f, ro, dir)
    \/ \E p \in Procs, f \in FileIds, data \in Payloads : WriteCall(p, f, data)
    \/ \E p \in Procs : WriteLock(p)
    \/ \E p \in Procs : WriteAppend(p)
    \/ \E p \in Procs : Write(p)
    \/ \E p \in Procs, f \in FileIds : FlushLock(p, f)
    \/ \E p \in Procs, g \in Gateway : Flush(p, g)
    \/ \E p \in Procs, f \in FileIds, g \in Gateway : ReloadType(p, f, g)
    \/ \E p \in Procs, g \in Gateway : ReloadFetch(p, g)
    \/ \E p \in Procs : ReloadSetRb(p)
    \/ \E p \in Procs : ReloadSetSize(p)
    \/ \E p \in Procs : ReadAll(p)
    \/ \E k \in Names, v \in ExtValues : ExtSet(k, v)
    \/ \E k \in Names : ExtDel(k)
    \/ \E k \in Names, e \in ExtElems : ExtRPush(k, e)
    \/ \E k \in Names : ExtSAdd(k)
    \/ \E i \in InodeParents, n \in InodeNames : GenerateInode(i, n)

Spec == Init /\ [][Next]_vars

\* The parts of the system the properties are checked on.
Solo == {"p1"}                   \* one request at a time
OneKey == {"a"}
OneElem == {<<120>>}
InUse == {files[f].name : f \in FileIds}

\* Directory handlers against a keyspace of every type.
NextDir ==
    \/ \E d \in DirNodes, n \in Names, g1 \in Gateway, g2 \in Gateway : Lookup(d, n, g1, g2)
    \/ \E d \in DirNodes, g \in Gateway, ft \in SUBSET Names : ReadDirAll(d, g, ft)
    \/ \E d \in DirNodes, n \in Names : Create(d, n)
    \/ \E d \in DirNodes, n \in Names, g1 \in Gateway, g2 \in Gateway : Mkdir(d, n, g1, g2)
    \/ \E k \in Names, v \in ExtValues : ExtSet(k, v)
    \/ \E k \in Names : ExtDel(k)
    \/ \E k \in Names, e \in OneElem : ExtRPush(k, e)
    \/ \E k \in Names : ExtSAdd(k)

SpecDir == Init /\ [][NextDir]_vars

\* Concurrent Write and Flush on one File node of the root.
NextWrite ==
    \/ \E n \in OneKey : Create(Root, n)
    \/ \E p \in Procs, f \in FileIds, data \in Payloads : WriteCall(p, f, data)
    \/ \E p \in Procs : WriteLock(p)
    \/ \E p \in Procs : WriteAppend(p)
    \/ \E p \in Procs : Write(p)
    \/ \E p \in Procs, f \in FileIds : FlushLock(p, f)
    \/ \E p \in Procs, g \in Gateway : Flush(p, g)

SpecWrite == Init /\ [][NextWrite]_vars

\* One request at a time: Open, Write and Flush on one File node, created
\* under the root or under a stream directory.
NextFlush ==
    \/ \E d \in DirNodes, n \in Names : Create(d, n)
    \/ \E d \in DirNodes, n \in Names, g1 \in Gateway, g2 \in Gateway :
          files = <<>> /\ Mkdir(d, n, g1, g2)
    \/ \E f \in FileIds, ro \in BOOLEAN, dir \in BOOLEAN : Open(f, ro, dir)
    \/ \E p \in Solo, f \in FileIds, data \in Payloads : WriteCall(p, f, data)
    \/ \E p \in Solo : WriteLock(p)
    \/ \E p \in Solo : WriteAppend(p)
    \/ \E p \in Solo : Write(p)
    \/ \E p \in Solo, f \in FileIds : FlushLock(p, f)
    \/ \E p \in Solo, g \in Gateway : Flush(p, g)
    \/ \E k \in InUse, v \in ExtValues : ExtSet(k, v)

SpecFlush == Init /\ [][NextFlush]_vars

\* One request at a time on one File node of the root: Write, Flush, ReadAll.
NextRW ==
    \/ \E n \in OneKey : Create(Root, n)
    \/ \E p \in Solo, f \in FileIds, data \in Payloads : WriteCall(p, f, data)
    \/ \E p \in Solo : WriteLock(p)
    \/ \E p \in Solo : WriteAppend(p)
    \/ \E p \in Solo : Write(p)
    \/ \E p \in Solo, f \in FileIds : FlushLock(p, f)
    \/ \E p \in Solo, g \in Gateway : Flush(p, g)
    \/ \E p \in Solo, f \in FileIds, g \in Gateway : ReloadType(p, f, g)
    \/ \E p \in Solo, g \in Gateway : ReloadFetch(p, g)
    \/ \E p \in Solo : ReloadSetRb(p)
    \/ \E p \in Solo : ReloadSetSize(p)
    \/ \E p \in Solo : ReadAll(p)
    \/ \E k \in InUse, v \in ExtValues : ExtSet(k, v)

SpecRW == Init /\ [][NextRW]_vars

\* One request at a time: Lookup and ReadAll on one key of every type.
NextRead ==
    \/ \E d \in DirNodes, n \in OneKey, g1 \in Gateway, g2 \in Gateway : Lookup(d, n, g1, g2)
    \/ \E n \in OneKey : Create(Root, n)
    \/ \E p \in Solo, f \in FileIds, g \in Gateway : ReloadType(p, f, g)
    \/ \E p \in Solo, g \in Gateway : ReloadFetch(p, g)
    \/ \E p \in Solo : ReloadSetRb(p)
    \/ \E p \in Solo : ReloadSetSize(p)
    \/ \E p \in Solo : ReadAll(p)
    \/ \E d \in DirNodes, n \in OneKey, g1 \in Gateway, g2 \in Gateway : Mkdir(d, n, g1, g2)
    \/ \E k \in OneKey, v \in ExtValues : ExtSet(k, v)
    \/ \E k \in OneKey : ExtDel(k)
    \/ \E k \in OneKey, e \in OneElem : ExtRPush(k, e)
    \/ \E k \in OneKey : ExtSAdd(k)

SpecRead == Init /\ [][NextRead]_vars

\* One request at a time: Lookup and ReadAll on one key that is a list of
\* different elements, or absent.
NextList ==
    \/ \E d \in DirNodes, n \in OneKey, g1 \in Gateway, g2 \in Gateway : Lookup(d, n, g1, g2)
    \/ \E p \in Solo, f \in FileIds, g \in Gateway : ReloadType(p, f, g)
    \/ \E p \in Solo, g \in Gateway : ReloadFetch(p, g)
    \/ \E p \in Solo : ReloadSetRb(p)
    \/ \E p \in Solo : ReloadSetSize(p)
    \/ \E p \in Solo : ReadAll(p)
    \/ \E k \in OneKey : ExtDel(k)
    \/ \E k \in OneKey, e \in ExtElems : ExtRPush(k, e)

SpecList == Init /\ [][NextList]_vars

\* Node identifiers for every parent and name.
NextInode ==
    \/ \E i \in InodeParents, n \in InodeNames : GenerateInode(i, n)

SpecInode == Init /\ [][NextInode]_vars

\* Concurrent Write, Flush and ReadAll on one File node of the root.
NextConc ==
    \/ \E n \in OneKey : Create(Root, n)
    \/ \E p \in Procs, f \in FileIds : WriteCall(p, f, <<102>>)
    \/ \E p \in Procs : WriteLock(p)
    \/ \E p \in Procs : WriteAppend(p)
    \/ \E p \in Procs : Write(p)
    \/ \E p \in Procs, f \in FileIds : FlushLock(p, f)
    \/ \E p \in Procs, g \in Gateway : Flush(p, g)
    \/ \E p \in Procs, f \in FileIds, g \in Gateway : ReloadType(p, f, g)
    \/ \E p \in Procs, g \in Gateway : ReloadFetch(p, g)
    \/ \E p \in Procs : ReloadSetRb(p)
    \/ \E p \in Procs : ReloadSetSize(p)
    \/ \E p \in Procs : ReadAll(p)
    \/ \E k \in InUse, v \in ExtValues : ExtSet(k, v)

SpecConc == Init /\ [][NextConc]_vars

TypeOK ==
    /\ \A f \in FileIds : files[f].mu \in Procs \cup {""}
    /\ \A p \in Procs : pc[p] \in {"idle", "w_lock", "w_append", "w_store", "f_body",
                                   "r_fetch", "r_setrb", "r_setsize", "r_ret"}

\* ----------------------------------------------------------- properties

\* C1: a flush on a File whose open asked for read-only (non-directory)
\* access leaves the store as it was.  (SpecFlush)
C1_ReadOnlyFlushLeavesStore ==
    [][\A p \in Procs, g \in Gateway :
          (pc[p] = "f_body" /\ hist[cur[p].f].roReq /\ Flush(p, g)) => store' = store]_vars

\* C2: on a File without stream parent, a ReadAll that follows a successful
\* Flush, with no other change of the key in between, returns the data of
\* the Write calls that Flush carried, concatenated in call order.  (SpecRW)
C2_FlushThenReadAll ==
    (ret.op = "ReadAll" /\ ret.err = "ok" /\ ret.solo /\ files[ret.f].parent = "")
        => ret.data = ret.expect

C2_Witness ==
    /\ ret.op = "ReadAll" /\ ret.err = "ok" /\ ret.solo
    /\ hist[ret.f].flushed = <<<<102>>, <<98>>>>
    /\ ret.data = <<102, 98>>

\* C3: when two Write calls A and B, possibly concurrent, have both returned
\* and one Flush follows, the scalar key holds A ++ B or B ++ A.  (SpecWrite)
C3_ConcurrentWritesWhole ==
    \A f \in FileIds :
        (hist[f].valid /\ Len(hist[f].flushed) = 2)
            => /\ store[files[f].name].t = "string"
               /\ store[files[f].name].str \in
                      {hist[f].flushed[1] \o hist[f].flushed[2],
                       hist[f].flushed[2] \o hist[f].flushed[1]}

\* The two calls overlapped: the one called second was served first.
C3_Witness ==
    \E f \in FileIds :
        /\ hist[f].valid /\ Len(hist[f].flushed) = 2
        /\ hist[f].flushed[1] # hist[f].flushed[2]
        /\ store[files[f].name].str = hist[f].flushed[2] \o hist[f].flushed[1]

\* C4: no two handlers are at the same time inside the sections that change
\* one File node's rb, wb or size.  (SpecConc)
Mutating(p) == pc[p] \in {"w_append", "w_store", "f_body", "r_setrb", "r_setsize"}
C4_ExclusiveMutation ==
    \A p \in Procs, q \in Procs :
        (p # q /\ cur[p].f = cur[q].f) => ~(Mutating(p) /\ Mutating(q))

\* C5: a Flush on a File that is not read-only either succeeds, leaving the
\* write buffer empty (and, without stream parent, the key holding the bytes
\* the buffer held), or returns EIO, leaving the write buffer and the store
\* as they were; it returns EIO whenever the connection fails, and succeeds
\* whenever the SET reaches the server.  (SpecFlush)
C5_FlushOutcomes ==
    [][\A p \in Procs, g \in Gateway :
          (pc[p] = "f_body" /\ ~files[cur[p].f].ro /\ Flush(p, g)) =>
              LET f == cur[p].f IN
              /\ \/ /\ ret'.err = "ok" /\ g = "ok"
                    /\ files'[f].wb = <<>>
                    /\ files[f].parent = "" => store'[files[f].name].str = files[f].wb
                 \/ /\ ret'.err = "EIO"
                    /\ files'[f].wb = files[f].wb
                    /\ store' = store
              /\ (g = "ok" /\ files[f].parent = "") => ret'.err = "ok"]_vars

C5_Witness ==
    /\ ret.op = "Flush" /\ ret.err = "EIO"
    /\ files[ret.f].wb = <<102, 98>>

\* C6: with the gateway answering, Lookup fails with ENOENT on an absent key,
\* returns a stream Directory for a stream and a File for a key of any other
\* type; Lookup never fails with ENOTSUP, the ReadAll on a File whose key
\* has a type outside string, list and stream does.  (SpecRead)
C6_LookupClassifies ==
    [][/\ \A n \in Names, g1 \in Gateway, g2 \in Gateway :
            (/\ ret'.op = "Lookup" /\ ret'.name = n
             /\ \E d \in DirNodes : Lookup(d, n, g1, g2)) =>
                /\ ret'.err # "ENOTSUP"
                /\ (g1 = "ok" /\ g2 = "ok") =>
                      /\ store[n].t = "none" => (ret'.err = "ENOENT" /\ ret'.node = "none")
                      /\ store[n].t = "stream" =>
                            (ret'.err = "ok" /\ ret'.node = "dir" /\ n \in dirs')
                      /\ store[n].t \notin {"none", "stream"} =>
                            (ret'.err = "ok" /\ ret'.node = "file")
       /\ \A p \in Procs, g \in Gateway :
            (pc[p] = "r_fetch" /\ cur[p].t \in {"set"} /\ ReloadFetch(p, g))
                => ret'.err = "ENOTSUP"]_vars

C6_Witness ==
    /\ ret.op = "ReadAll" /\ ret.err = "ENOTSUP"
    /\ hist[ret.f].origin = "lookup"
    /\ store[files[ret.f].name].t = "set"

\* C7: a Lookup whose EXISTS or TYPE call fails on the connection fails
\* with EIO.  (SpecDir)
C7_LookupGatewayFailureIsEIO ==
    [][\A d \in DirNodes, n \in Names, g1 \in Gateway, g2 \in Gateway :
          (/\ ret'.op = "Lookup"
           /\ g1 = "fail" \/ (store[n].t # "none" /\ g2 = "fail")
           /\ Lookup(d, n, g1, g2))
          => ret'.err = "EIO"]_vars

\* C8 as claimed: the root listing has an entry for the stream keys and the
\* string keys only.  (SpecDir)
C8_OtherTypesOmitted ==
    [][\A g \in Gateway, ft \in SUBSET Names :
          (ret'.op = "ReadDirAll" /\ ret'.err = "ok" /\ ReadDirAll(Root, g, ft)) =>
              /\ \A e \in ret'.entries : store[e.name].t \in {"stream", "string"}
              /\ Cardinality(ret'.entries) =
                    Cardinality({k \in Names : store[k].t \in {"stream", "string"}})]_vars

\* C8 amended: the root listing has exactly one entry per key: a directory
\* entry for a stream, a file entry for a string, an entry of unknown kind
\* for a key of any other type.  (SpecDir)
C8_OneEntryPerKey ==
    [][\A g \in Gateway, ft \in SUBSET Names :
          (ret'.op = "ReadDirAll" /\ ret'.err = "ok" /\ ReadDirAll(Root, g, ft)) =>
              /\ \A e \in ret'.entries :
                    /\ store[e.name].t # "none"
                    /\ e.type = "DT_Dir" <=> store[e.name].t = "stream"
                    /\ e.type = "DT_File" <=> store[e.name].t = "string"
                    /\ e.type = "DT_Unknown" <=> store[e.name].t \notin {"stream", "string"}
              /\ \A k \in Names : store[k].t # "none" => \E e \in ret'.entries : e.name = k
              /\ Cardinality(ret'.entries) =
                    Cardinality({k \in Names : store[k].t # "none"})]_vars

C8_Witness ==
    /\ ret.op = "ReadDirAll" /\ ret.err = "ok"
    /\ Cardinality(ret.entries) = 2
    /\ \E e \in ret.entries : e.type = "DT_Unknown" /\ store[e.name].t = "list"
    /\ \E e \in ret.entries : e.type = "DT_Dir"

\* C9: a Mkdir that succeeds on an absent key leaves the key a stream with
\* no entry, the placeholder 0-1 having been appended and deleted, and a
\* Lookup of the name then returns a Directory.  (SpecDir)
C9_MkdirLeavesEmptyStream ==
    [][\A d \in DirNodes, n \in Names, g1 \in Gateway, g2 \in Gateway :
          (/\ ret'.op = "Mkdir" /\ ret'.err = "ok" /\ store[n].t = "none"
           /\ Mkdir(d, n, g1, g2)) =>
              /\ store'[n].t = "stream"
              /\ store'[n].xs = <<>>
              /\ store'[n].last = <<0, 1>>
              /\ LookupResult(store', n, "ok", "ok") = [err |-> "ok", node |-> "dir"]]_vars

C9_Witness ==
    /\ ret.op = "Mkdir" /\ ret.err = "ok"
    /\ store[ret.name].t = "stream" /\ store[ret.name].xs = <<>>
    /\ store[ret.name].last = <<0, 1>>

\* C10: Create and every step of a Write leave the store as it was.
\* (SpecFlush)
C10_CreateAndWriteLeaveStore ==
    [][/\ \A d \in DirNodes, n \in Names :
             (ret'.op = "Create" /\ Create(d, n)) => store' = store
       /\ \A p \in Procs, f \in FileIds, data \in Payloads :
             (pc[p] = "idle" /\ WriteCall(p, f, data)) => store' = store
       /\ \A p \in Procs :
             (WriteLock(p) \/ WriteAppend(p) \/ Write(p)) => store' = store]_vars

C10_Witness ==
    /\ ret.op = "Write"
    /\ hist[ret.f].origin = "create"
    /\ files[ret.f].wb = <<102, 98>>
    /\ store[files[ret.f].name] = NoKey

\* C11: the node identifier of (parent, name) is the 64-bit FNV-1a hash of
\* the parent identifier's 8 little-endian bytes followed by the name's
\* bytes.  (SpecInode)
C11_InodeHashesParentThenName ==
    ret.op = "GenerateInode"
        => ret.data = Fnv64aWrite(Offset64, PutUint64(ret.n) \o NameBytes[ret.name])

\* C12: ReadAll on a list-typed key returns the elements in list order with
\* one newline between consecutive elements and none after the last; a list
\* without elements gives the empty byte sequence; the cached size afterwards
\* is the length of the returned bytes.  (SpecList)
RECURSIVE C12_Joined(_)
C12_Joined(es) ==
    IF es = <<>> THEN <<>>
    ELSE LET front == SubSeq(es, 1, Len(es) - 1) IN
         C12_Joined(front) \o (IF front = <<>> THEN <<>> ELSE <<10>>) \o es[Len(es)]

C12_ListReadJoinsElements ==
    [][\A p \in Solo :
         /\ \A g \in Gateway :
              (/\ pc[p] = "r_fetch" /\ cur[p].t = "list" /\ g = "ok"
               /\ store[files[cur[p].f].name].t \in {"list", "none"}
               /\ ReloadFetch(p, g))
              => /\ pc'[p] = "r_setrb"
                 /\ cur'[p].b = C12_Joined(store[files[cur[p].f].name].list)
         /\ (pc[p] = "r_ret" /\ cur[p].t = "list" /\ ReadAll(p))
              => /\ ret'.err = "ok"
                 /\ ret'.data = cur[p].b
                 /\ files'[ret'.f].size = Len(ret'.data)]_vars

C12_Witness ==
    /\ ret.op = "ReadAll" /\ ret.err = "ok"
    /\ store["a"].t = "list" /\ Len(store["a"].list) >= 2
    /\ store["a"].list[1] # store["a"].list[2]
    /\ ret.data = C12_Joined(store["a"].list)
    /\ files[ret.f].size = Len(ret.data)
    /\ \E i \in 1..Len(ret.data) : ret.data[i] = 10

\* C13: Mkdir fails with EIO and hands out no node in both failure cases.
\* When the XADD fails the store is as before (no XDEL took effect); when
\* the XADD succeeds and the XDEL fails the key stays a stream holding
\* exactly the placeholder entry, and a Lookup of it gives a directory.
\* (SpecDir)
C13_MkdirFailures ==
    [][\A n \in Names, g1 \in Gateway, g2 \in Gateway :
          (/\ ret'.op = "Mkdir" /\ ret'.name = n
           /\ \E d \in DirNodes : Mkdir(d, n, g1, g2)) =>
              LET a == XAdd(store, n, "0-1", Dummy, g1) IN
              /\ a.err # "nil" =>
                    /\ ret'.err = "EIO" /\ ret'.node = "none" /\ dirs' = dirs
                    /\ store' = store
              /\ (a.err = "nil" /\ g2 = "fail") =>
                    /\ ret'.err = "EIO" /\ ret'.node = "none" /\ dirs' = dirs
                    /\ store'[n].t = "stream"
                    /\ store'[n].xs = <<[id |-> "0-1", blob |-> Dummy]>>
                    /\ \A k \in Names \ {n} : store'[k] = store[k]
                    /\ LookupResult(store', n, "ok", "ok") = [err |-> "ok", node |-> "dir"]]_vars

C13_Witness ==
    /\ ret.op = "Mkdir" /\ ret.err = "EIO" /\ ret.node = "none"
    /\ ret.name \notin dirs
    /\ store[ret.name].t = "stream"
    /\ store[ret.name].xs = <<[id |-> "0-1", blob |-> Dummy]>>

\* C14: a successful Flush of a File that is not read-only goes where the
\* parent says.  With a stream parent P it appends one entry to P, whose id
\* is the file's name followed by "-0" and whose only field is the whole
\* write buffer, and touches no other key; without a stream parent it makes
\* the key of the file's name a string holding the whole write buffer and
\* touches no other key.  (SpecFlush)
C14_FlushRoutesByParent ==
    [][\A p \in Solo, g \in Gateway :
          (/\ pc[p] = "f_body" /\ ret'.op = "Flush" /\ ret'.err = "ok"
           /\ ~files[cur[p].f].ro /\ Flush(p, g)) =>
              LET file == files[cur[p].f]
                  P == file.parent IN
              IF P # ""
              THEN /\ store'[P].t = "stream"
                   /\ store'[P].xs = Append(store[P].xs,
                                            [id |-> file.name \o "-0", blob |-> file.wb])
                   /\ \A k \in Names \ {P} : store'[k] = store[k]
              ELSE /\ store'[file.name] = [NoKey EXCEPT !.t = "string", !.str = file.wb]
                   /\ \A k \in Names \ {file.name} : store'[k] = store[k]]_vars

C14_Witness ==
    /\ ret.op = "Flush" /\ ret.err = "ok"
    /\ files[ret.f].parent = "a" /\ files[ret.f].name = "1"
    /\ store["a"].xs = <<[id |-> "1-0", blob |-> <<102, 98>>]>>
    /\ store["1"] = NoKey

\* C15: a ReadAll on a File whose key is absent from the store, the store
\* answering every call, fails with ENOENT and returns no bytes.  (SpecRead)
C15_AbsentKeyIsENOENT ==
    [][\A p \in Solo, g \in Gateway :
          (/\ pc[p] = "r_fetch" /\ g = "ok" /\ cur[p].t = "none"
           /\ store[files[cur[p].f].name].t = "none"
           /\ ReloadFetch(p, g))
          => (ret'.op = "ReadAll" /\ ret'.err = "ENOENT" /\ ret'.data = <<>>)]_vars

\* C16: a Flush that reaches the store, on a File that is not read-only, has
\* no stream parent and has an empty write buffer, makes the key an empty
\* string whatever it held, touches no other key and leaves the buffer empty;
\* the same Flush made again changes neither the store nor the buffer.
\* (SpecFlush)
C16_EmptyFlushWritesEmpty ==
    [][\A p \in Solo, g \in Gateway :
          (/\ pc[p] = "f_body" /\ g = "ok" /\ ret'.op = "Flush"
           /\ ~files[cur[p].f].ro /\ files[cur[p].f].parent = ""
           /\ files[cur[p].f].wb = <<>>
           /\ Flush(p, g)) =>
              LET f == cur[p].f
                  again == FlushResult(files'[f], store', "ok") IN
              /\ ret'.err = "ok"
              /\ store'[files[f].name] = [NoKey EXCEPT !.t = "string"]
              /\ \A k \in Names \ {files[f].name} : store'[k] = store[k]
              /\ files'[f].wb = <<>>
              /\ again.err = "ok" /\ again.st = store' /\ again.wb = files'[f].wb]_vars

\* A Flush with nothing pending has returned: the key is an empty string.
C16_Witness ==
    /\ ret.op = "Flush" /\ ret.err = "ok"
    /\ files[ret.f].parent = "" /\ files[ret.f].wb = <<>>
    /\ hist[ret.f].calls = <<>> /\ hist[ret.f].flushed = <<>> /\ hist[ret.f].valid
    /\ store[files[ret.f].name] = [NoKey EXCEPT !.t = "string"]

\* C17: every successful ReadAll returns the serialization of a value the
\* store held for the key at some point between the call and its return.
\* (SpecConc)
C17_ReadAllIsFresh ==
    (ret.op = "ReadAll" /\ ret.err = "ok") => ret.fresh

\* C18: a Flush running against a Write drops none of the bytes a Write has
\* accepted.  At every moment the write buffer is made of the data of the
\* Write calls that have returned and that no Flush has committed; a
\* successful Flush commits the buffer as it stands and leaves it empty, and
\* a Write still waiting then leaves exactly its own data in the buffer.
\* (SpecWrite)
RECURSIVE C18_Orders(_)
C18_Orders(ds) ==
    IF ds = <<>> THEN {<<>>}
    ELSE UNION {{ds[i] \o r : r \in C18_Orders(SubSeq(ds, 1, i - 1) \o SubSeq(ds, i + 1, Len(ds)))} :
                   i \in 1..Len(ds)}

C18_NoAcceptedBytesDropped ==
    /\ [](\A f \in FileIds : files[f].wb \in C18_Orders(Data(Done(hist[f].calls))))
    /\ [][\A p \in Procs, g \in Gateway :
            (pc[p] = "f_body" /\ ret'.op = "Flush" /\ ret'.err = "ok" /\ Flush(p, g)) =>
                LET f == cur[p].f IN
                /\ store'[files[f].name].str = files[f].wb
                /\ files'[f].wb = <<>>
                /\ hist'[f].calls = NotDone(hist[f].calls)
                /\ \A q \in Procs \ {p} :
                      pc[q] = "w_lock" => \E i \in 1..Len(hist'[f].calls) :
                                              /\ hist'[f].calls[i].p = q
                                              /\ hist'[f].calls[i].data = cur[q].data]_vars

\* A Flush has committed A while a Write was waiting for the lock.
C18_Witness ==
    /\ ret.op = "Flush" /\ ret.err = "ok"
    /\ store[files[ret.f].name].str # <<>>
    /\ files[ret.f].wb = <<>>
    /\ \E q \in Procs : pc[q] = "w_lock" /\ cur[q].f = ret.f /\ cur[q].data # <<>>

\* C19: whenever no ReadAll is in progress on a File node, its cached size
\* is the length of its read buffer.  (SpecConc)
C19_SizeIsLenOfRb ==
    \A f \in FileIds : Readers(f) = {} => files[f].size = Len(files[f].rb)

====
